---- MODULE Spec2Model ----
(***************************************************************************)
(* Model of the secure OTA client in firmware/src/fimware.cpp: setup(),    *)
(* loop(), checkForUpdates(), performSecureUpdate(), verify_signature(),   *)
(* compareVersionStrings(), handleErrorState(), validateConfiguration().   *)
(* Arduino Strings are sequences of one-character strings, indexed from 0  *)
(* in the code and from 1 here.                                            *)
(***************************************************************************)
EXTENDS Integers, Sequences, FiniteSets, TLC

(* ------------------------------ bounds -------------------------------- *)
\* largest content length the firmware response announces
MaxContentLength == 2
\* bytes the firmware stream can deliver beyond MaxContentLength
MaxExtra == 1
\* largest value of millis() the model looks at
MaxMillis == 4
\* largest byte value of the firmware stream
MaxByte == 1
\* largest number of segments of a version string handed to the comparison
MaxSegments == 3

(* --------------------------- Arduino String --------------------------- *)
Min(a, b) == IF a < b THEN a ELSE b

\* the characters of s from 0-based position from on start with needle
MatchAt(s, needle, from) ==
  /\ from + Len(needle) <= Len(s)
  /\ \A k \in 1..Len(needle) : s[from + k] = needle[k]

\* String::indexOf(needle, from): 0-based position of the first match at or
\* after from, -1 when there is none
IndexOf(s, needle, from) ==
  LET hits == {i \in 0..Len(s) : i >= from /\ i < Len(s) /\ MatchAt(s, needle, i)}
  IN IF hits = {} THEN -1
     ELSE CHOOSE i \in hits : \A j \in hits : i <= j

\* String::substring(left, right): characters left..right-1 (0-based), with
\* the arguments swapped when left > right and right clamped to the length
Substring(s, left, right) ==
  LET lo == IF left > right THEN right ELSE left
      hi0 == IF left > right THEN left ELSE right
      hi == Min(hi0, Len(s))
  IN IF lo >= Len(s) THEN <<>>
     ELSE SubSeq(s, lo + 1, hi)

(* ----------------------- compareVersionStrings ------------------------ *)
Digits == <<"0", "1", "2", "3", "4", "5", "6", "7", "8", "9">>

isDigit(c) == \E d \in 1..10 : Digits[d] = c

DigitVal(c) == (CHOOSE d \in 1..10 : Digits[d] = c) - 1

\* result standing for "the while(true) loop never returns"
CmpDiverges == 2

\* the inner digit loop without the "* 10"
RECURSIVE ScanDigits_NoShift(_, _, _)
ScanDigits_NoShift(s, idx, part) ==
  IF idx < Len(s) /\ isDigit(s[idx + 1])
  THEN ScanDigits_NoShift(s, idx + 1, part + DigitVal(s[idx + 1]))
  ELSE <<idx, part>>

\* the inner digit loop: <<index after the digits, value of the digits>>
RECURSIVE ScanDigits(_, _, _)
ScanDigits(s, idx, part) ==
  IF idx < Len(s) /\ isDigit(s[idx + 1])
  THEN ScanDigits(s, idx + 1, part * 10 + DigitVal(s[idx + 1]))
  ELSE <<idx, part>>

SkipDot(s, idx) == IF idx < Len(s) /\ s[idx + 1] = "." THEN idx + 1 ELSE idx

\* the while(true) loop with || for && at line 351
RECURSIVE CompareFrom_EitherDone(_, _, _, _)
CompareFrom_EitherDone(leftVersion, rightVersion, leftIdx, rightIdx) ==
  LET l == ScanDigits(leftVersion, leftIdx, 0)
      r == ScanDigits(rightVersion, rightIdx, 0)
      leftNext == SkipDot(leftVersion, l[1])
      rightNext == SkipDot(rightVersion, r[1])
      leftDone == leftNext >= Len(leftVersion)
      rightDone == rightNext >= Len(rightVersion)
  IN IF l[2] > r[2] THEN 1
     ELSE IF l[2] < r[2] THEN -1
     ELSE IF leftDone \/ rightDone THEN 0
     ELSE IF leftNext = leftIdx /\ rightNext = rightIdx THEN CmpDiverges
     ELSE CompareFrom_EitherDone(leftVersion, rightVersion, leftNext, rightNext)

\* one pass of the while(true) loop from (leftIdx, rightIdx). A pass that
\* returns nothing and moves neither index repeats itself for ever.
RECURSIVE CompareFrom(_, _, _, _)
CompareFrom(leftVersion, rightVersion, leftIdx, rightIdx) ==
  LET l == ScanDigits(leftVersion, leftIdx, 0)
      r == ScanDigits(rightVersion, rightIdx, 0)
      leftNext == SkipDot(leftVersion, l[1])
      rightNext == SkipDot(rightVersion, r[1])
      leftDone == leftNext >= Len(leftVersion)
      rightDone == rightNext >= Len(rightVersion)
  IN IF l[2] > r[2] THEN 1
     ELSE IF l[2] < r[2] THEN -1
     ELSE IF leftDone /\ rightDone THEN 0
     ELSE IF leftNext = leftIdx /\ rightNext = rightIdx THEN CmpDiverges
     ELSE CompareFrom(leftVersion, rightVersion, leftNext, rightNext)

compareVersionStrings(leftVersion, rightVersion) ==
  CompareFrom(leftVersion, rightVersion, 0, 0)

(* --------------------------- configuration ---------------------------- *)
\* secrets/config.h is not part of the sources: the configuration is an
\* input, fixed at build time
V(a, b) == <<a, ".", b>>

GoodKey == <<"P", "E", "M">>
MalformedKey == <<"x">>

GoodConfig ==
  [WIFI_SSID |-> <<"s">>, WIFI_PASSWORD |-> <<"p">>,
   GITHUB_OWNER |-> <<"o">>, GITHUB_REPO |-> <<"r">>,
   GITHUB_RELEASES_URL |-> <<"u">>, FIRMWARE_VERSION |-> V("1", "2"),
   UPDATE_CHECK_INTERVAL |-> 2, VERSION_PRINT_INTERVAL |-> 3,
   SERIAL_BAUD_RATE |-> 1, PUBLIC_KEY |-> GoodKey]

Configs ==
  { GoodConfig,
    [GoodConfig EXCEPT !.PUBLIC_KEY = MalformedKey],
    [GoodConfig EXCEPT !.PUBLIC_KEY = <<>>],
    [GoodConfig EXCEPT !.WIFI_SSID = <<>>],
    [GoodConfig EXCEPT !.UPDATE_CHECK_INTERVAL = 0] }

validateConfiguration(c) ==
  /\ Len(c.WIFI_SSID) # 0
  /\ Len(c.WIFI_PASSWORD) # 0
  /\ Len(c.GITHUB_OWNER) # 0
  /\ Len(c.GITHUB_REPO) # 0
  /\ Len(c.GITHUB_RELEASES_URL) # 0
  /\ Len(c.FIRMWARE_VERSION) # 0
  /\ ~(c.UPDATE_CHECK_INTERVAL <= 0)
  /\ ~(c.VERSION_PRINT_INTERVAL <= 0)
  /\ ~(c.SERIAL_BAUD_RATE <= 0)
  /\ Len(c.PUBLIC_KEY) # 0

(* ----------------------- release-listing documents -------------------- *)
Q == <<"\"">>
KeyTagName == Q \o <<"t", "a", "g", "_", "n", "a", "m", "e">> \o Q \o <<":">> \o Q
KeyAssets == Q \o <<"a", "s", "s", "e", "t", "s">> \o Q \o <<":", "[">>
KeyName == Q \o <<"n", "a", "m", "e">> \o Q \o <<":">> \o Q
KeyUrl ==
  Q \o <<"b", "r", "o", "w", "s", "e", "r", "_", "d", "o", "w", "n", "l", "o",
         "a", "d", "_", "u", "r", "l">> \o Q \o <<":">> \o Q
FirmwareBin == <<"f", "i", "r", "m", "w", "a", "r", "e", ".", "b", "i", "n">>
SignatureBin == <<"s", "i", "g", "n", "a", "t", "u", "r", "e", ".", "b", "i", "n">>
NameFirmware == KeyName \o FirmwareBin \o Q
NameSignature == KeyName \o SignatureBin \o Q

FirmwareLocation == <<"/", "f">>
SignatureLocation == <<"/", "s">>

Asset(name, url) ==
  <<"{">> \o KeyName \o name \o Q \o <<",">> \o KeyUrl \o url \o Q \o <<"}">>

Release(tag, assets) ==
  <<"{">> \o KeyTagName \o tag \o Q \o <<",">> \o KeyAssets \o assets \o <<"]", "}">>

BothAssets ==
  Asset(FirmwareBin, FirmwareLocation) \o <<",">> \o Asset(SignatureBin, SignatureLocation)

\* the bodies http.getString() can return
Responses ==
  { Release(V("2", "0"), BothAssets),
    Release(V("1", "2"), BothAssets),
    Release(V("1", "0"), BothAssets),
    Release(<<"v">> \o V("2", "0"), BothAssets),
    Release(V("1", "2") \o <<"b">>, BothAssets),
    Release(V("2", "0"), Asset(FirmwareBin, FirmwareLocation)),
    Release(V("2", "0"), Asset(SignatureBin, SignatureLocation)),
    Release(V("2", "0"), <<>>),
    <<"{">> \o KeyAssets \o BothAssets \o <<"]", "}">>,
    <<"{", "}">> }

\* lines 113-121: the text of the tag_name field, "" when there is none
ExtractTag(response) ==
  LET tagStart == IndexOf(response, KeyTagName, 0)
  IN IF tagStart = -1 THEN <<>>
     ELSE LET tagEnd == IndexOf(response, Q, tagStart + 12)
          IN IF tagEnd = -1 THEN <<>>
             ELSE Substring(response, tagStart + 12, tagEnd)

\* lines 134-138: the text from "assets":[ up to the first ], or the marker
\* NoSection when either is missing
NoSection == <<"none">>
AssetsSection(response) ==
  LET assetsStart == IndexOf(response, KeyAssets, 0)
  IN IF assetsStart = -1 THEN NoSection
     ELSE LET assetsEnd == IndexOf(response, <<"]">>, assetsStart)
          IN IF assetsEnd = -1 THEN NoSection
             ELSE Substring(response, assetsStart, assetsEnd)

\* lines 142-153 and 159-170: the location taken for the asset whose name
\* entry is nameEntry, "" when a step of the search fails
ExtractUrl(assetsSection, nameEntry) ==
  LET nameStart == IndexOf(assetsSection, nameEntry, 0)
  IN IF nameStart = -1 THEN <<>>
     ELSE LET urlStart == IndexOf(assetsSection, KeyUrl, nameStart)
          IN IF urlStart = -1 THEN <<>>
             ELSE LET urlEnd == IndexOf(assetsSection, Q, urlStart + 22)
                  IN IF urlEnd = -1 THEN <<>>
                     ELSE Substring(assetsSection, urlStart + 22, urlEnd)

ResolveUrl(response, nameEntry) ==
  IF AssetsSection(response) = NoSection THEN <<>>
  ELSE ExtractUrl(AssetsSection(response), nameEntry)

(* ------------------- transport, flash and crypto ---------------------- *)
HTTP_CODE_OK == 200
HttpCodes == {HTTP_CODE_OK, 403, 404}

bufferSize == 1024

Byte == 0..MaxByte

\* the byte sequences of length n
ByteSeqs(n) == [1..n -> Byte]

\* the firmware images a release can hold
Images == UNION {ByteSeqs(n) : n \in 1..MaxContentLength}

\* SHA-256 as a collision-free function of the bytes fed to the context, in
\* the order they were fed
Sha256(bytes) == <<"sha256", bytes>>
NoDigest == <<"sha256", "unfinished">>

\* a signature made with the release key over a digest; <<>> is a blob that
\* is no signature at all (empty, truncated, garbage)
Sign(digest) == <<"signed", digest>>
NoSignature == <<>>
Signatures == {Sign(Sha256(img)) : img \in Images} \cup {NoSignature}

\* mbedtls_pk_parse_public_key returns 0
PkParses(key) == key = GoodKey

\* mbedtls_pk_verify returns 0
PkVerifies(hash, sig) == sig = Sign(hash)

verify_signature(key, sha256_hash, sig) ==
  IF ~PkParses(key) THEN FALSE
  ELSE PkVerifies(sha256_hash, sig)

(* ------------------------- branch conditions -------------------------- *)
\* line 200 with && for ||
FilesMissing_Both(fw, sg) == Len(fw) = 0 /\ Len(sg) = 0

\* line 200
FilesMissing(fw, sg) == Len(fw) = 0 \/ Len(sg) = 0

\* line 210 with >= for >
UpdateWanted_OrEqual(c) == c >= 0

\* line 210
UpdateWanted(c) == c > 0

\* line 231 with < for <=
InvalidSize_Negative(len) == len < 0

\* line 231
InvalidSize(len) == len <= 0

\* line 263 with the result of Update.write ignored
WriteFailed_Never(wrote, readLen) == FALSE

\* line 263
WriteFailed(wrote, readLen) == wrote # readLen

\* line 274 with > for !=
SizeMismatch_Over(total, len) == total > len

\* line 274 with < for !=
SizeMismatch_Under(total, len) == total < len

\* line 274
SizeMismatch(total, len) == total # len

\* line 302 with the result of verify_signature ignored
SignatureRejected_Never(ok) == FALSE

\* line 302 with the negation dropped
SignatureRejected_Inverted(ok) == ok

\* line 302
SignatureRejected(ok) == ~ok

\* line 310 with the result of Update.end ignored
FinalizeFailed_Never(endOk) == FALSE

\* line 310
FinalizeFailed(endOk) == ~endOk

(* ------------------------------- state -------------------------------- *)
VARIABLES
  config,                \* the constants of config.h
  pc,                    \* where the program is
  now,                   \* the last value millis() returned
  previousMillisUpdate, previousMillisPrint,
  wifiConnected,         \* the last WiFi.status() == WL_CONNECTED read
  response,              \* the body http.getString() returned
  newVersion, firmwareUrl, signatureUrl, cmp,          \* checkForUpdates
  contentLength, totalWritten,                         \* performSecureUpdate
  shaInput,              \* bytes fed to shaCtx, in order
  flashWritten,          \* bytes Update.write accepted, in order
  flashPassed,           \* number of bytes handed to Update.write
  shaResult, signature,
  verified,              \* verify_signature returned true in this attempt
  committed,             \* Update.end returned true in this attempt
  calls,                 \* the calls of this attempt on its collaborators
  lastError,             \* the code of this attempt's handleErrorState call
  errorSeen              \* handleErrorState was called since boot

timers == <<now, previousMillisUpdate, previousMillisPrint, wifiConnected>>
descriptor == <<response, newVersion, firmwareUrl, signatureUrl, cmp>>
download == <<contentLength, totalWritten, shaInput, flashWritten, flashPassed>>
crypto == <<shaResult, signature, verified, committed>>
vars == <<config, pc, timers, descriptor, download, crypto, calls, lastError, errorSeen>>

Count(seq, name) == Cardinality({i \in 1..Len(seq) : seq[i] = name})

Init ==
  /\ config \in Configs
  /\ pc = "setup"
  /\ now = 0
  /\ previousMillisUpdate = 0
  /\ previousMillisPrint = 0
  /\ wifiConnected = FALSE
  /\ response = <<>>
  /\ newVersion = <<>> /\ firmwareUrl = <<>> /\ signatureUrl = <<>> /\ cmp = 0
  /\ contentLength = 0 /\ totalWritten = 0
  /\ shaInput = <<>> /\ flashWritten = <<>> /\ flashPassed = 0
  /\ shaResult = NoDigest /\ signature = NoSignature /\ verified = FALSE
  /\ committed = FALSE
  /\ calls = <<>>
  /\ lastError = "NONE"
  /\ errorSeen = FALSE

\* the locals of checkForUpdates and performSecureUpdate as a call finds
\* them, and no call made yet
freshAttempt ==
  /\ response' = <<>>
  /\ newVersion' = <<>> /\ firmwareUrl' = <<>> /\ signatureUrl' = <<>> /\ cmp' = 0
  /\ contentLength' = 0 /\ totalWritten' = 0
  /\ shaInput' = <<>> /\ flashWritten' = <<>> /\ flashPassed' = 0
  /\ shaResult' = NoDigest /\ signature' = NoSignature /\ verified' = FALSE
  /\ committed' = FALSE
  /\ calls' = <<>>
  /\ lastError' = "NONE"

\* handleErrorState(errorCode) after the calls more, then back in loop()
handleErrorState(errorCode, more) ==
  /\ calls' = calls \o more \o <<"handleErrorState">>
  /\ lastError' = errorCode
  /\ errorSeen' = TRUE
  /\ pc' = "loop"

(* ------------------------------ setup() ------------------------------- *)
\* connectWiFi() returns only once the link is up; the status read at line
\* 40 is a new read
setup ==
  /\ pc = "setup"
  /\ IF ~validateConfiguration(config)
     THEN /\ handleErrorState("CONFIG_VALIDATION_FAILED", <<>>)
          /\ UNCHANGED wifiConnected
     ELSE /\ \E status \in BOOLEAN :
               /\ wifiConnected' = status
               /\ pc' = IF status THEN "checkForUpdates" ELSE "loop"
          /\ UNCHANGED <<calls, lastError, errorSeen>>
  /\ UNCHANGED <<config, now, previousMillisUpdate, previousMillisPrint,
                 descriptor, download, crypto>>

(* ------------------------------- loop() ------------------------------- *)
\* One iteration of loop(). previousMillisPrint is not read by
\* checkForUpdates, so its assignment at line 69 is taken with the call.
\* The locals of the attempt that returned before this iteration are gone.
loop ==
  /\ pc = "loop"
  /\ \E currentMillis \in now..MaxMillis, status \in BOOLEAN :
       LET due == currentMillis - previousMillisUpdate >= config.UPDATE_CHECK_INTERVAL
           duePrint == currentMillis - previousMillisPrint >= config.VERSION_PRINT_INTERVAL
       IN /\ now' = currentMillis
          /\ previousMillisUpdate' = IF due THEN currentMillis ELSE previousMillisUpdate
          /\ wifiConnected' = IF due THEN status ELSE wifiConnected
          /\ pc' = IF due /\ status THEN "checkForUpdates" ELSE "loop"
          /\ previousMillisPrint' = IF duePrint THEN currentMillis ELSE previousMillisPrint
  /\ freshAttempt
  /\ UNCHANGED <<config, errorSeen>>

(* -------------------------- checkForUpdates() ------------------------- *)
\* lines 74-216 up to the call of performSecureUpdate
checkForUpdates ==
  /\ pc = "checkForUpdates"
  /\ \E httpCode \in HttpCodes, body \in Responses :
       LET tag == ExtractTag(body)
           fw == ResolveUrl(body, NameFirmware)
           sg == ResolveUrl(body, NameSignature)
           c == compareVersionStrings(tag, config.FIRMWARE_VERSION)
           fail(code, ver, f, s) ==
             /\ response' = IF httpCode # HTTP_CODE_OK THEN <<>> ELSE body
             /\ newVersion' = ver /\ firmwareUrl' = f /\ signatureUrl' = s
             /\ cmp' = 0
             /\ calls' = <<"GET_release", "handleErrorState">>
             /\ lastError' = code
             /\ errorSeen' = TRUE
             /\ pc' = "loop"
       IN IF httpCode # HTTP_CODE_OK
          THEN fail("GITHUB_RELEASE_FETCH_FAILED", <<>>, <<>>, <<>>)
          ELSE IF Len(tag) = 0
          THEN fail("GITHUB_RELEASE_NO_VERSION", tag, <<>>, <<>>)
          ELSE IF FilesMissing(fw, sg)
          THEN fail("GITHUB_RELEASE_MISSING_FILES", tag, fw, sg)
          ELSE /\ response' = body
               /\ newVersion' = tag /\ firmwareUrl' = fw /\ signatureUrl' = sg
               /\ cmp' = c
               /\ calls' = <<"GET_release">>
               /\ lastError' = "NONE"
               /\ UNCHANGED errorSeen
               /\ pc' = IF c = CmpDiverges THEN "compareVersionStrings"
                        ELSE IF UpdateWanted(c) THEN "performSecureUpdate"
                        ELSE "loop"
  /\ UNCHANGED <<config, timers, download, crypto>>

(* ------------------------ performSecureUpdate() ----------------------- *)
\* lines 218-254: open the firmware stream and the flash transaction
beginUpdate ==
  /\ pc = "performSecureUpdate"
  /\ \E httpCode \in HttpCodes, size \in -1..MaxContentLength, beginOk \in BOOLEAN :
       IF httpCode # HTTP_CODE_OK
       THEN /\ handleErrorState("FIRMWARE_DOWNLOAD_FAILED", <<"GET_firmware">>)
            /\ UNCHANGED contentLength
       ELSE /\ contentLength' = size
            /\ IF InvalidSize(size)
               THEN handleErrorState("INVALID_FIRMWARE_SIZE", <<"GET_firmware">>)
               ELSE IF ~beginOk
               THEN handleErrorState("INSUFFICIENT_SPACE", <<"GET_firmware", "Update.begin">>)
               ELSE /\ calls' = calls \o <<"GET_firmware", "Update.begin">>
                    /\ pc' = "download"
                    /\ UNCHANGED <<lastError, errorSeen>>
  /\ UNCHANGED <<config, timers, descriptor, totalWritten, shaInput,
                 flashWritten, flashPassed, crypto>>

\* the bytes the firmware stream can still deliver
StreamLeft == MaxContentLength + MaxExtra - flashPassed

\* lines 256-272: one pass of the download loop
downloadChunk ==
  /\ pc = "download"
  /\ totalWritten < contentLength
  /\ \E readLen \in 0..Min(bufferSize, StreamLeft) :
       \E buffer \in ByteSeqs(readLen), wrote \in 0..readLen :
         IF readLen = 0
         THEN /\ pc' = "sizeCheck"
              /\ UNCHANGED <<totalWritten, shaInput, flashWritten, flashPassed,
                             calls, lastError, errorSeen>>
         ELSE /\ flashPassed' = flashPassed + readLen
              /\ flashWritten' = flashWritten \o SubSeq(buffer, 1, wrote)
              /\ IF WriteFailed(wrote, readLen)
                 THEN /\ handleErrorState("FIRMWARE_WRITE_INCOMPLETE",
                                          <<"Update.write", "Update.abort">>)
                      /\ UNCHANGED <<totalWritten, shaInput>>
                 ELSE /\ shaInput' = shaInput \o buffer
                      /\ totalWritten' = totalWritten + readLen
                      /\ calls' = calls \o <<"Update.write", "sha256_update">>
                      /\ pc' = "download"
                      /\ UNCHANGED <<lastError, errorSeen>>
  /\ UNCHANGED <<config, timers, descriptor, contentLength, crypto>>

\* lines 274-285: after the loop
sizeCheck ==
  /\ \/ pc = "sizeCheck"
     \/ pc = "download" /\ ~(totalWritten < contentLength)
  /\ IF SizeMismatch(totalWritten, contentLength)
     THEN /\ handleErrorState("FIRMWARE_WRITE_INCOMPLETE", <<"Update.abort">>)
          /\ UNCHANGED shaResult
     ELSE /\ shaResult' = Sha256(shaInput)
          /\ calls' = calls \o <<"sha256_finish">>
          /\ pc' = "fetchSignature"
          /\ UNCHANGED <<lastError, errorSeen>>
  /\ UNCHANGED <<config, timers, descriptor, download, signature, verified, committed>>

\* lines 287-299
fetchSignature ==
  /\ pc = "fetchSignature"
  /\ \E httpCode \in HttpCodes, sig \in Signatures :
       IF httpCode # HTTP_CODE_OK
       THEN /\ handleErrorState("SIGNATURE_DOWNLOAD_FAILED",
                                <<"GET_signature", "Update.abort">>)
            /\ UNCHANGED signature
       ELSE /\ signature' = sig
            /\ calls' = calls \o <<"GET_signature">>
            /\ pc' = "verify"
            /\ UNCHANGED <<lastError, errorSeen>>
  /\ UNCHANGED <<config, timers, descriptor, download, shaResult, verified, committed>>

\* lines 301-308
verify ==
  /\ pc = "verify"
  /\ LET ok == verify_signature(config.PUBLIC_KEY, shaResult, signature)
     IN /\ verified' = ok
        /\ IF SignatureRejected(ok)
           THEN handleErrorState("SIGNATURE_VERIFICATION_FAILED",
                                 <<"verify_signature", "Update.abort">>)
           ELSE /\ calls' = calls \o <<"verify_signature">>
                /\ pc' = "finalize"
                /\ UNCHANGED <<lastError, errorSeen>>
  /\ UNCHANGED <<config, timers, descriptor, download, shaResult, signature, committed>>

\* lines 310-318
finalize ==
  /\ pc = "finalize"
  /\ \E endOk \in BOOLEAN :
       /\ committed' = endOk
       /\ IF FinalizeFailed(endOk)
          THEN handleErrorState("UPDATE_FINALIZE_FAILED", <<"Update.end">>)
          ELSE /\ calls' = calls \o <<"Update.end", "ESP.restart">>
               /\ pc' = "restarted"
               /\ UNCHANGED <<lastError, errorSeen>>
  /\ UNCHANGED <<config, timers, descriptor, download, shaResult, signature, verified>>

Next ==
  \/ setup
  \/ loop
  \/ checkForUpdates
  \/ beginUpdate
  \/ downloadChunk
  \/ sizeCheck
  \/ fetchSignature
  \/ verify
  \/ finalize

Spec == Init /\ [][Next]_vars

\* Every transport, flash and crypto call returns, so a step of a running
\* attempt that can be taken is taken. loop() and setup() get no fairness:
\* connectWiFi() may wait for ever.
FairSpec ==
  /\ Spec
  /\ WF_vars(checkForUpdates)
  /\ WF_vars(beginUpdate)
  /\ WF_vars(downloadChunk)
  /\ WF_vars(sizeCheck)
  /\ WF_vars(fetchSignature)
  /\ WF_vars(verify)
  /\ WF_vars(finalize)

(* ------------------ compareVersionStrings on its own ------------------ *)
\* the decimal texts of the segments
SegTexts == {<<"0">>, <<"1">>, <<"1", "0">>}

\* the dotted strings of exactly n segments
RECURSIVE Dotted(_)
Dotted(n) ==
  IF n = 1 THEN SegTexts
  ELSE {d \o <<".">> \o t : d \in Dotted(n - 1), t \in SegTexts}

VersionStrings == UNION {Dotted(n) : n \in 1..MaxSegments}

\* strings with characters other than digits and '.'
OddStrings ==
  { <<"v">> \o V("2", "0"), <<"v">> \o V("1", "2"), V("1", "2") \o <<"b">>,
    V("1", "2") \o <<"-", "b", "e", "t", "a">>, <<"v">> }

\* the strings of the examples of the comparison
ExampleStrings ==
  { V("1", "3"), V("1", "2") \o <<".", "9">>, <<"1", ".", "9", ".", "9">> }

CompareInputs == VersionStrings \cup OddStrings \cup ExampleStrings

\* line 209 with any two strings as the new and the running version
InitCompare ==
  /\ config \in {[GoodConfig EXCEPT !.FIRMWARE_VERSION = r] : r \in CompareInputs}
  /\ newVersion \in CompareInputs
  /\ pc = "call"
  /\ now = 0
  /\ previousMillisUpdate = 0
  /\ previousMillisPrint = 0
  /\ wifiConnected = TRUE
  /\ response = <<>>
  /\ firmwareUrl = <<>> /\ signatureUrl = <<>> /\ cmp = 0
  /\ contentLength = 0 /\ totalWritten = 0
  /\ shaInput = <<>> /\ flashWritten = <<>> /\ flashPassed = 0
  /\ shaResult = NoDigest /\ signature = NoSignature /\ verified = FALSE
  /\ committed = FALSE
  /\ calls = <<>>
  /\ lastError = "NONE"
  /\ errorSeen = FALSE

\* the call at line 209; a call that does not return stays inside
\* compareVersionStrings
compareCall ==
  /\ pc = "call"
  /\ LET c == compareVersionStrings(newVersion, config.FIRMWARE_VERSION)
     IN /\ cmp' = c
        /\ pc' = IF c = CmpDiverges THEN "compareVersionStrings" ELSE "returned"
  /\ UNCHANGED <<config, timers, response, newVersion, firmwareUrl, signatureUrl,
                 download, crypto, calls, lastError, errorSeen>>

CompareSpec == InitCompare /\ [][compareCall]_vars

(* ------------------------------ properties --------------------------- *)
Called(name) == Count(calls, name) > 0

\* checkForUpdates is running, performSecureUpdate included
AttemptPcs ==
  {"checkForUpdates", "compareVersionStrings", "performSecureUpdate", "download",
   "sizeCheck", "fetchSignature", "verify", "finalize"}

\* the attempt built a descriptor: a tag and both locations
Resolved ==
  /\ Called("GET_release")
  /\ Len(newVersion) # 0 /\ Len(firmwareUrl) # 0 /\ Len(signatureUrl) # 0

\* C1: Update.end is called only after verify_signature returned true for
\* the digest finished in this attempt; when verify_signature returns false
\* the attempt calls Update.abort, reports SIGNATURE_VERIFICATION_FAILED and
\* never calls Update.end.
C1_CommitOnlyAfterVerification ==
  /\ Called("Update.end") =>
       /\ verified
       /\ shaResult = Sha256(shaInput)
       /\ verify_signature(config.PUBLIC_KEY, shaResult, signature)
       /\ \E i, j \in 1..Len(calls) :
            i < j /\ calls[i] = "verify_signature" /\ calls[j] = "Update.end"
  /\ (Called("verify_signature") /\ ~verified) =>
       /\ Count(calls, "Update.abort") = 1
       /\ lastError = "SIGNATURE_VERIFICATION_FAILED"
       /\ ~Called("Update.end")
       /\ pc = "loop"

\* a well-formed signature over another image was rejected
C1_Witness ==
  /\ Called("verify_signature") /\ ~verified
  /\ PkParses(config.PUBLIC_KEY)
  /\ signature # NoSignature
  /\ signature # Sign(shaResult)

\* C2: ESP.restart happens only when all contentLength bytes were written,
\* the signature verified and Update.end succeeded; an attempt that reported
\* an error never restarts.
C2_RestartOnlyAfterVerifiedCommit ==
  /\ (pc = "restarted" \/ Called("ESP.restart")) =>
       /\ totalWritten = contentLength
       /\ Len(flashWritten) = contentLength
       /\ flashPassed = contentLength
       /\ verified
       /\ committed
       /\ lastError = "NONE"
  /\ lastError # "NONE" => pc # "restarted" /\ ~Called("ESP.restart")

\* a restart after a download of several chunks
C2_Witness ==
  /\ pc = "restarted"
  /\ Count(calls, "Update.write") >= 2

\* C3 as claimed: once an update attempt has ended in handleErrorState,
\* checkForUpdates is not running again before a restart. With a valid
\* configuration only an attempt calls handleErrorState.
C3_NoAttemptAfterError ==
  (validateConfiguration(config) /\ errorSeen) => pc \notin AttemptPcs

\* C4 as claimed: after Update.begin succeeded every failed exit has called
\* Update.abort exactly once, and Update.end is called on the success path
\* only.
C4_AbortOnEveryFailedExit ==
  /\ (pc = "loop" /\ Called("Update.begin") /\ lastError # "INSUFFICIENT_SPACE") =>
       Count(calls, "Update.abort") = 1
  /\ Called("Update.end") => pc = "restarted"

\* C5: an attempt for a strictly greater version whose stream delivered
\* exactly contentLength bytes with every write complete, whose signature
\* download succeeded, whose signature verifies and whose commit did not
\* fail, ends restarted, with Update.end called once and Update.abort never.
C5_GoodUpdateSucceeds ==
  ( /\ pc \in {"loop", "restarted"}
    /\ Resolved /\ cmp = 1
    /\ Called("Update.begin") /\ lastError # "INSUFFICIENT_SPACE"
    /\ totalWritten = contentLength
    /\ flashPassed = contentLength /\ Len(flashWritten) = contentLength
    /\ Called("GET_signature") /\ lastError # "SIGNATURE_DOWNLOAD_FAILED"
    /\ verify_signature(config.PUBLIC_KEY, Sha256(flashWritten), signature)
    /\ lastError # "UPDATE_FINALIZE_FAILED" )
  => /\ pc = "restarted"
     /\ Count(calls, "Update.end") = 1
     /\ Count(calls, "Update.abort") = 0
     /\ committed
     /\ calls[Len(calls)] = "ESP.restart"
     /\ lastError = "NONE"

\* release 2.0 installed over running version 1.2
C5_Witness ==
  /\ pc = "restarted"
  /\ newVersion = V("2", "0") /\ config.FIRMWARE_VERSION = V("1", "2")
  /\ Count(calls, "Update.end") = 1 /\ Count(calls, "Update.abort") = 0

\* the attempt ended with "No new version available"
NoUpdate ==
  /\ pc = "loop"
  /\ Resolved
  /\ compareVersionStrings(newVersion, config.FIRMWARE_VERSION) \in {-1, 0}

\* C6: when the manifest version is equal to or lower than the running
\* version, checkForUpdates returns having made no call but the release
\* fetch (no performSecureUpdate, no firmware or signature fetch, no
\* Update.begin, no handleErrorState), and the next due iteration of loop()
\* with WiFi connected calls checkForUpdates again.
C6_NoUpdateIsNoOp ==
  /\ []( ( /\ Resolved
           /\ compareVersionStrings(newVersion, config.FIRMWARE_VERSION) \in {-1, 0} )
         => /\ pc = "loop"
            /\ calls = <<"GET_release">>
            /\ lastError = "NONE" )
  /\ [][ ( /\ NoUpdate
           /\ now' - previousMillisUpdate >= config.UPDATE_CHECK_INTERVAL
           /\ wifiConnected' )
         => pc' = "checkForUpdates" ]_vars

\* release 1.2 offered to running version 1.2
C6_Witness ==
  /\ NoUpdate
  /\ newVersion = V("1", "2") /\ config.FIRMWARE_VERSION = V("1", "2")
  /\ cmp = 0

\* C7 as claimed: with a configuration that validateConfiguration rejects,
\* checkForUpdates is never called.
C7_InvalidConfigNeverChecks ==
  ~validateConfiguration(config) => pc # "checkForUpdates" /\ ~Called("GET_release")

\* C8: a firmware response with a content length of zero or less ends the
\* attempt with INVALID_FIRMWARE_SIZE and without a call of Update.begin,
\* Update.write, Update.abort or Update.end.
C8_InvalidSizeBeforeFlash ==
  ( /\ Called("GET_firmware") /\ lastError # "FIRMWARE_DOWNLOAD_FAILED"
    /\ contentLength <= 0 )
  => /\ lastError = "INVALID_FIRMWARE_SIZE"
     /\ pc = "loop"
     /\ ~Called("Update.begin") /\ ~Called("Update.write")
     /\ ~Called("Update.abort") /\ ~Called("Update.end")
     /\ flashPassed = 0

\* content length reported as 0
C8_Witness ==
  /\ Called("GET_firmware") /\ lastError = "INVALID_FIRMWARE_SIZE"
  /\ contentLength = 0

\* the download loop is over, every write was complete, and fewer bytes than
\* contentLength were delivered
StreamEndedEarly ==
  /\ Called("Update.begin") /\ lastError # "INSUFFICIENT_SPACE"
  /\ pc \notin {"download", "sizeCheck"}
  /\ flashPassed = Len(flashWritten)
  /\ totalWritten < contentLength

\* C9: when the stream stops before contentLength bytes were delivered, the
\* attempt ends with FIRMWARE_WRITE_INCOMPLETE, Update.abort called exactly
\* once, no signature fetch and no Update.end.
C9_EarlyEndIsIncomplete ==
  /\ pc = "sizeCheck" => totalWritten < contentLength
  /\ StreamEndedEarly =>
       /\ pc = "loop"
       /\ lastError = "FIRMWARE_WRITE_INCOMPLETE"
       /\ Count(calls, "Update.abort") = 1
       /\ ~Called("GET_signature")
       /\ ~Called("Update.end")
       /\ shaResult = NoDigest

\* the stream stopped after delivering a part of the image
C9_Witness ==
  /\ StreamEndedEarly
  /\ totalWritten > 0
  /\ lastError = "FIRMWARE_WRITE_INCOMPLETE"

\* C10 as claimed: an Update.write that accepted fewer bytes than it was
\* given ends the attempt with FIRMWARE_WRITE_ERROR.
C10_ShortWriteIsWriteError ==
  flashPassed # Len(flashWritten) => lastError = "FIRMWARE_WRITE_ERROR"

\* C11 as claimed: a release tag "v2.0" is compared as "2.0", so with
\* running version "1.2" the comparison says strictly greater and
\* performSecureUpdate starts.
C11_LeadingVStripped ==
  ( /\ Resolved
    /\ ExtractTag(response) = <<"v">> \o V("2", "0")
    /\ config.FIRMWARE_VERSION = V("1", "2") )
  => /\ newVersion = V("2", "0")
     /\ cmp = 1
     /\ (pc = "performSecureUpdate" \/ Called("GET_firmware"))

\* the text between the quotes of the browser_download_url field that
\* follows the name entry of an asset
AssetUrl(text, nameEntry) ==
  LET nameStart == IndexOf(text, nameEntry, 0)
      valueStart == IndexOf(text, KeyUrl, nameStart) + Len(KeyUrl)
  IN Substring(text, valueStart, IndexOf(text, Q, valueStart))

HasAsset(text, nameEntry) == IndexOf(text, nameEntry, 0) # -1

\* C12 as claimed: for a release with a tag and assets named firmware.bin
\* and signature.bin, the firmware and signature locations are the complete
\* browser_download_url values of these two assets.
C12_LocationsAreUrlValues ==
  ( /\ Called("GET_release")
    /\ Len(ExtractTag(response)) # 0
    /\ HasAsset(response, NameFirmware) /\ HasAsset(response, NameSignature) )
  => /\ firmwareUrl = AssetUrl(response, NameFirmware)
     /\ signatureUrl = AssetUrl(response, NameSignature)

\* C13: a release with a tag whose assets omit firmware.bin or signature.bin
\* ends checkForUpdates with GITHUB_RELEASE_MISSING_FILES, which is not the
\* missing-version code, with no comparison result taken, no firmware fetch
\* and no Update.begin.
C13_MissingAssetIsMissingFiles ==
  ( /\ Called("GET_release")
    /\ Len(ExtractTag(response)) # 0
    /\ (~HasAsset(response, NameFirmware) \/ ~HasAsset(response, NameSignature)) )
  => /\ lastError = "GITHUB_RELEASE_MISSING_FILES"
     /\ lastError # "GITHUB_RELEASE_NO_VERSION"
     /\ pc = "loop"
     /\ cmp = 0
     /\ calls = <<"GET_release", "handleErrorState">>
     /\ ~Called("GET_firmware") /\ ~Called("Update.begin")

\* release 2.0 whose only asset is firmware.bin
C13_Witness ==
  /\ response = Release(V("2", "0"), Asset(FirmwareBin, FirmwareLocation))
  /\ lastError = "GITHUB_RELEASE_MISSING_FILES"
  /\ Len(signatureUrl) = 0 /\ Len(firmwareUrl) # 0

(* the comparison as section 4.1 of the specification words it *)
\* the segments of a dotted string
RECURSIVE Segments(_)
Segments(s) ==
  LET dot == IndexOf(s, <<".">>, 0)
  IN IF dot = -1 THEN <<s>>
     ELSE <<SubSeq(s, 1, dot)>> \o Segments(SubSeq(s, dot + 2, Len(s)))

\* the base-10 value of a digit text
RECURSIVE Decimal(_)
Decimal(t) ==
  IF t = <<>> THEN 0
  ELSE Decimal(SubSeq(t, 1, Len(t) - 1)) * 10 + DigitVal(t[Len(t)])

\* the value of segment i, 0 past the last segment
SegmentValue(s, i) ==
  IF i <= Len(Segments(s)) THEN Decimal(Segments(s)[i]) ELSE 0

\* the sign of the first segment pair that differs, 0 when none does
SignOfFirstDifference(a, b) ==
  LET n == IF Len(Segments(a)) > Len(Segments(b))
           THEN Len(Segments(a)) ELSE Len(Segments(b))
      differ == {i \in 1..n : SegmentValue(a, i) # SegmentValue(b, i)}
      first == CHOOSE i \in differ : \A j \in differ : i <= j
  IN IF differ = {} THEN 0
     ELSE IF SegmentValue(a, first) > SegmentValue(b, first) THEN 1 ELSE -1

IsVersionString(s) ==
  /\ Len(s) > 0
  /\ \A i \in 1..Len(Segments(s)) :
       /\ Len(Segments(s)[i]) > 0
       /\ \A k \in 1..Len(Segments(s)[i]) : isDigit(Segments(s)[i][k])

C15_TotalOrder ==
  ( /\ pc # "call"
    /\ IsVersionString(newVersion) /\ IsVersionString(config.FIRMWARE_VERSION) )
  => /\ pc = "returned"
     /\ compareVersionStrings(newVersion, newVersion) = 0
     /\ cmp = 0 - compareVersionStrings(config.FIRMWARE_VERSION, newVersion)
     /\ \A c \in VersionStrings :
          ( cmp >= 0 /\ compareVersionStrings(config.FIRMWARE_VERSION, c) >= 0 )
          => compareVersionStrings(newVersion, c) >= 0

\* two strings of different length that compare equal
C15_Witness ==
  /\ pc = "returned"
  /\ newVersion = V("1", "0") \o <<".", "0">> /\ config.FIRMWARE_VERSION = V("1", "0")
  /\ cmp = 0

\* C20 as claimed: every call of compareVersionStrings returns, and returns
\* -1, 0 or 1, also for strings with characters other than digits and '.'.
C20_CompareReturns ==
  pc # "call" => (pc = "returned" /\ cmp \in {-1, 0, 1})

\* C16 as claimed: every invocation of checkForUpdates ends, in a restart,
\* in "no new version" or in an error, whatever the release document and
\* the firmware stream are.
C16_AttemptCompletes ==
  (pc = "checkForUpdates") ~> (pc \in {"loop", "restarted"})

\* the download loop of lines 256-272 is left
DownloadLoopExits == (pc = "download") ~> (pc # "download")

\* the number of entries name among the first n calls
CountUpTo(n, name) == Cardinality({i \in 1..n : calls[i] = name})

\* C17 as claimed: every chunk handed to Update.write was appended to the
\* SHA-256 context before: each Update.write call is preceded by as many
\* sha256_update calls as there are Update.write calls up to it.
C17_DigestBeforeWrite ==
  \A i \in 1..Len(calls) :
    calls[i] = "Update.write" =>
      CountUpTo(i - 1, "sha256_update") >= CountUpTo(i, "Update.write")

\* C18: when the digest is finished, the bytes fed to the SHA-256 context
\* are the bytes Update.write accepted, in the same order, and there are
\* exactly contentLength of them; verify_signature is called with a finished
\* digest only, and an attempt that failed in the download finishes none.
C18_DigestCoversFlashedBytes ==
  /\ shaResult # NoDigest =>
       /\ shaResult = Sha256(shaInput)
       /\ shaInput = flashWritten
       /\ Len(shaInput) = contentLength
       /\ flashPassed = contentLength
       /\ Count(calls, "sha256_finish") = 1
  /\ Called("sha256_finish") => shaResult # NoDigest
  /\ Called("verify_signature") => shaResult # NoDigest
  /\ lastError \in {"FIRMWARE_DOWNLOAD_FAILED", "INVALID_FIRMWARE_SIZE",
                    "INSUFFICIENT_SPACE", "FIRMWARE_WRITE_INCOMPLETE"} =>
       shaResult = NoDigest

\* a digest finished over an image that arrived in several chunks
C18_Witness ==
  /\ pc = "verify"
  /\ shaResult = Sha256(flashWritten)
  /\ Count(calls, "Update.write") >= 2

\* C19 as claimed: the number of bytes handed to Update.write never exceeds
\* contentLength.
C19_PassedWithinContentLength ==
  Called("Update.write") => flashPassed <= contentLength

\* C19 amended: Update.write is called only while fewer than contentLength
\* bytes were handed over before the call, so only the last write of an
\* attempt can go beyond contentLength, by less than bufferSize; an attempt
\* that went beyond finishes no digest, fetches no signature, commits
\* nothing and ends with one Update.abort and FIRMWARE_WRITE_INCOMPLETE.
C19_OnlyLastWriteOvershoots ==
  /\ []( (Called("Update.write") /\ flashPassed > contentLength) =>
           /\ flashPassed < contentLength + bufferSize
           /\ pc \in {"download", "loop"}
           /\ shaResult = NoDigest
           /\ ~Called("GET_signature") /\ ~Called("Update.end")
           /\ pc = "loop" =>
                /\ lastError = "FIRMWARE_WRITE_INCOMPLETE"
                /\ Count(calls, "Update.abort") = 1 )
  /\ [][flashPassed' > flashPassed => flashPassed < contentLength]_vars

\* a stream that delivered more than contentLength, every write complete
C19_Witness ==
  /\ Called("Update.write")
  /\ flashPassed > contentLength
  /\ Len(flashWritten) = flashPassed
  /\ lastError = "FIRMWARE_WRITE_INCOMPLETE"

====
